---- MODULE Spec2Model ----
(***************************************************************************)
(* Model of internal/document/service/dots_ocr.py: a one-shot command-line *)
(* wrapper that dispatches on a mode argument to one of two OCR stubs and  *)
(* prints the stub's result as JSON.                                       *)
(*                                                                         *)
(* A Python string is a sequence of one-character strings.  Two characters *)
(* outside ASCII are written by their code points: "U+4E2D", a CJK         *)
(* character, and "U+DCFF", the lone surrogate that sys.argv holds for a   *)
(* byte 0xFF of an argument that is not valid UTF-8.                       *)
(* A JSON-serialisable Python value is a record of one uniform shape:      *)
(*   t     : "null" | "str" | "int" | "float" | "list" | "dict"            *)
(*   s     : the characters of a str                                       *)
(*   n     : an int, or a float counted in hundredths                      *)
(*   items : the elements of a list / the entries of a dict, in insertion  *)
(*           order, each [k |-> key characters, val |-> value]             *)
(***************************************************************************)
EXTENDS Naturals, Integers, Sequences, FiniteSets, TLC

\* ---------------------------------------------------------------- bounds
MaxPathLen == 2
MaxExtraArgs == 1
NumContents == 2

\* ------------------------------------------------------ strings and JSON
Cjk == "U+4E2D"
Surrogate == "U+DCFF"
PathChars == {"a", "\"", Cjk, Surrogate}
IsAscii(c) == c \notin {Cjk, Surrogate}

RECURSIVE StringsUpTo(_)
StringsUpTo(n) ==
    IF n = 0 THEN {<<>>}
    ELSE LET shorter == StringsUpTo(n - 1)
         IN  shorter \cup {Append(s, c) : s \in shorter, c \in PathChars}

Paths == StringsUpTo(MaxPathLen)

Contains(s, p) ==
    \E i \in 0..Len(s) : i + Len(p) <= Len(s) /\ SubSeq(s, i + 1, i + Len(p)) = p

JNull == [t |-> "null", s |-> <<>>, n |-> 0, items |-> <<>>]
JStr(s) == [t |-> "str", s |-> s, n |-> 0, items |-> <<>>]
JInt(n) == [t |-> "int", s |-> <<>>, n |-> n, items |-> <<>>]
JFloat(h) == [t |-> "float", s |-> <<>>, n |-> h, items |-> <<>>]
JList(vals) ==
    [t |-> "list", s |-> <<>>, n |-> 0,
     items |-> [i \in 1..Len(vals) |-> [k |-> <<>>, val |-> vals[i]]]]
JDict(entries) == [t |-> "dict", s |-> <<>>, n |-> 0, items |-> entries]
Entry(key, value) == [k |-> key, val |-> value]

Keys(d) == {d.items[i].k : i \in 1..Len(d.items)}
Get(d, key) == d.items[CHOOSE i \in 1..Len(d.items) : d.items[i].k = key].val

\* literal text of the program
KError == <<"e", "r", "r", "o", "r">>
KText == <<"t", "e", "x", "t">>
KConfidence == <<"c", "o", "n", "f", "i", "d", "e", "n", "c", "e">>
KLanguage == <<"l", "a", "n", "g", "u", "a", "g", "e">>
KBoxes == <<"b", "o", "x", "e", "s">>
KPages == <<"p", "a", "g", "e", "s">>
KPage == <<"p", "a", "g", "e">>
ModeImage == <<"i", "m", "a", "g", "e">>
ModePdf == <<"p", "d", "f">>
ModeTxt == <<"t", "x", "t">>
ModeCapImage == <<"I", "m", "a", "g", "e">>
ScriptName == <<"d", "o", "t", "s", "_", "o", "c", "r", ".", "p", "y">>
LangZh == <<"z", "h">>
FileNotFoundMsg == <<"F", "i", "l", "e", " ", "n", "o", "t", " ", "f", "o", "u", "n", "d", ":", " ">>
SimulatedMsg == <<"S", "i", "m", "u", "l", "a", "t", "e", "d", " ", "O", "C", "R", " ", "r", "e", "s", "u", "l", "t", " ", "f", "o", "r", " ">>
SimulatedPageMsg == <<"S", "i", "m", "u", "l", "a", "t", "e", "d", " ", "O", "C", "R", " ", "r", "e", "s", "u", "l", "t", " ", "f", "o", "r", " ", "p", "a", "g", "e", " ", "1", " ", "o", "f", " ">>
UsageMsg == <<"U", "s", "a", "g", "e", ":", " ", "p", "y", "t", "h", "o", "n", " ", "d", "o", "t", "s", "_", "o", "c", "r", ".", "p", "y", " ", "<", "m", "o", "d", "e", ">", " ", "<", "f", "i", "l", "e", "_", "p", "a", "t", "h", ">">>
InvalidModeMsg == <<"I", "n", "v", "a", "l", "i", "d", " ", "m", "o", "d", "e", ".", " ", "U", "s", "e", " ", "'", "i", "m", "a", "g", "e", "'", " ", "o", "r", " ", "'", "p", "d", "f", "'">>

\* ------------------------------------------------------------ json.dumps
Digit(d) == <<"0", "1", "2", "3", "4", "5", "6", "7", "8", "9">>[d + 1]

\* repr of an int in 0..99
IntRepr(n) == IF n < 10 THEN <<Digit(n)>> ELSE <<Digit(n \div 10), Digit(n % 10)>>

\* repr of the float h/100, 0 <= h < 100 (0.95 -> "0.95", 0.5 -> "0.5")
FloatRepr(h) ==
    <<"0", ".", Digit(h \div 10)>> \o (IF h % 10 = 0 THEN <<>> ELSE <<Digit(h % 10)>>)

\* one character inside a JSON string literal
EscapeChar(c, ensure_ascii) ==
    IF c = "\"" THEN <<"\\", "\"">>
    ELSE IF c = "\\" THEN <<"\\", "\\">>
    ELSE IF ensure_ascii /\ c = Cjk THEN <<"\\", "u", "4", "e", "2", "d">>
    ELSE IF ensure_ascii /\ c = Surrogate THEN <<"\\", "u", "d", "c", "f", "f">>
    ELSE <<c>>

RECURSIVE EscapeString(_, _)
EscapeString(s, ensure_ascii) ==
    IF s = <<>> THEN <<>>
    ELSE EscapeChar(Head(s), ensure_ascii) \o EscapeString(Tail(s), ensure_ascii)

Quoted(s, ensure_ascii) == <<"\"">> \o EscapeString(s, ensure_ascii) \o <<"\"">>

RECURSIVE json_dumps(_, _)
RECURSIVE DumpItems(_, _, _)
DumpItems(items, isDict, ensure_ascii) ==
    IF items = <<>> THEN <<>>
    ELSE LET e == Head(items)
             one == (IF isDict THEN Quoted(e.k, ensure_ascii) \o <<":", " ">> ELSE <<>>)
                    \o json_dumps(e.val, ensure_ascii)
         IN  IF Len(items) = 1 THEN one
             ELSE one \o <<",", " ">> \o DumpItems(Tail(items), isDict, ensure_ascii)

json_dumps(obj, ensure_ascii) ==
    CASE obj.t = "null" -> <<"n", "u", "l", "l">>
      [] obj.t = "str" -> Quoted(obj.s, ensure_ascii)
      [] obj.t = "int" -> IntRepr(obj.n)
      [] obj.t = "float" -> FloatRepr(obj.n)
      [] obj.t = "list" -> <<"[">> \o DumpItems(obj.items, FALSE, ensure_ascii) \o <<"]">>
      [] obj.t = "dict" -> <<"{">> \o DumpItems(obj.items, TRUE, ensure_ascii) \o <<"}">>

\* ----------------------------------------------------------------- state
VARIABLES
    argv,            \* sys.argv, argv[1] being the script name (sys.argv[0])
    files,           \* the file system at the paths the run can name: path -> content, 0 = absent
    importable,      \* whether PIL, torch and transformers can be imported
    stdoutEncoding,  \* sys.stdout.encoding: "utf-8" or "ascii"
    stdoutErrors,    \* sys.stdout.errors: "strict" or "surrogateescape"
    pc,              \* position of the process
    mode,            \* main's local
    file_path,       \* main's local
    result,          \* main's local
    stdout,          \* the lines written to standard output
    exitStatus,      \* -1 while running
    uncaught,        \* the exception that ended the process, "" if none
    trace,           \* the checks and calls done so far, in order
    prev             \* outcome of the previous invocation with the same mode and path

vars == <<argv, files, importable, stdoutEncoding, stdoutErrors, pc, mode, file_path, result,
          stdout, exitStatus, uncaught, trace, prev>>

ExtraArg == <<"x">>
ModeArgs == {ModeImage, ModePdf, ModeTxt, ModeCapImage}
Encodings == {"utf-8", "ascii"}
ErrorHandlers == {"strict", "surrogateescape"}

RECURSIVE ExtraArgsUpTo(_)
ExtraArgsUpTo(n) ==
    IF n = 0 THEN {<<>>}
    ELSE LET shorter == ExtraArgsUpTo(n - 1)
         IN  shorter \cup {Append(t, ExtraArg) : t \in shorter}

\* the argument vectors a caller can pass
Argvs ==
    {<<ScriptName>>}
    \cup {<<ScriptName, m>> : m \in ModeArgs}
    \cup {<<ScriptName, m, p>> \o t : m \in ModeArgs, p \in Paths, t \in ExtraArgsUpTo(MaxExtraArgs)}

\* the file systems a run with argument vector a can meet; the empty path names no file
FileSystems(a) ==
    IF Len(a) < 3 THEN {<<>>}
    ELSE {[p \in {a[3]} |-> c] : c \in (IF a[3] = <<>> THEN {0} ELSE 0..NumContents)}

os_path_exists(p) == p \in DOMAIN files /\ files[p] # 0

\* whether sys.stdout's encoder accepts the character
CanEncodeChar(c) ==
    IF c = Surrogate THEN stdoutErrors = "surrogateescape"
    ELSE IF c = Cjk THEN stdoutEncoding = "utf-8"
    ELSE TRUE

CanEncode(text) == \A i \in 1..Len(text) : CanEncodeChar(text[i])

NoPrev == [ran |-> FALSE, argv |-> <<>>, files |-> <<>>, out |-> <<>>, status |-> 0]

Init ==
    /\ argv \in Argvs
    /\ files \in FileSystems(argv)
    /\ importable \in BOOLEAN
    /\ stdoutEncoding \in Encodings
    /\ stdoutErrors \in ErrorHandlers
    /\ pc = "start"
    /\ mode = <<>>
    /\ file_path = <<>>
    /\ result = JNull
    /\ stdout = <<>>
    /\ exitStatus = -1
    /\ uncaught = ""
    /\ trace = <<>>
    /\ prev = NoPrev

\* ----------------------------------------------------------------- stubs
ErrorObj(msg) == JDict(<<Entry(KError, JStr(msg))>>)

\* The except clause of each stub (return {"error": str(e)}) has nothing to
\* catch when the argument is a str: os.path.exists answers False instead of
\* raising, and the f-string and the dict display cannot raise.
\* faulty variant: the path is not interpolated into the text
extract_text_from_image_NoPath(image_path) ==
    IF ~os_path_exists(image_path)
    THEN ErrorObj(FileNotFoundMsg \o image_path)
    ELSE JDict(<<Entry(KText, JStr(SimulatedMsg)),
                 Entry(KConfidence, JFloat(95)),
                 Entry(KLanguage, JStr(LangZh)),
                 Entry(KBoxes, JList(<<>>))>>)

extract_text_from_image(image_path) ==
    IF ~os_path_exists(image_path)
    THEN ErrorObj(FileNotFoundMsg \o image_path)
    ELSE JDict(<<Entry(KText, JStr(SimulatedMsg \o image_path)),
                 Entry(KConfidence, JFloat(95)),
                 Entry(KLanguage, JStr(LangZh)),
                 Entry(KBoxes, JList(<<>>))>>)

\* faulty variant: one page object per page of the file, the content standing for the page count
extract_text_from_pdf_PerPage(pdf_path) ==
    IF ~os_path_exists(pdf_path)
    THEN ErrorObj(FileNotFoundMsg \o pdf_path)
    ELSE JDict(<<Entry(KPages,
                       JList([i \in 1..files[pdf_path] |->
                                JDict(<<Entry(KPage, JInt(i)),
                                        Entry(KText, JStr(SimulatedPageMsg \o pdf_path)),
                                        Entry(KConfidence, JFloat(95)),
                                        Entry(KLanguage, JStr(LangZh))>>)]))>>)

extract_text_from_pdf(pdf_path) ==
    IF ~os_path_exists(pdf_path)
    THEN ErrorObj(FileNotFoundMsg \o pdf_path)
    ELSE JDict(<<Entry(KPages,
                       JList(<<JDict(<<Entry(KPage, JInt(1)),
                                       Entry(KText, JStr(SimulatedPageMsg \o pdf_path)),
                                       Entry(KConfidence, JFloat(95)),
                                       Entry(KLanguage, JStr(LangZh))>>)>>))>>)

\* --------------------------------------------------------------- actions
\* print(text) followed by the end of the process with the given status;
\* a character sys.stdout cannot encode raises UnicodeEncodeError, which
\* nothing catches: nothing is written and the interpreter exits with 1.
PrintThenExit(text, status) ==
    /\ IF CanEncode(text)
       THEN /\ stdout' = Append(stdout, text)
            /\ exitStatus' = status
            /\ uncaught' = ""
       ELSE /\ stdout' = stdout
            /\ exitStatus' = 1
            /\ uncaught' = "UnicodeEncodeError"
    /\ pc' = "exited"

\* lines 4-9 and 94-95: the imports run before anything else
LoadModule ==
    /\ pc = "start"
    /\ IF importable
       THEN /\ pc' = "main"
            /\ UNCHANGED <<exitStatus, uncaught>>
       ELSE /\ pc' = "exited"
            /\ exitStatus' = 1
            /\ uncaught' = "ModuleNotFoundError"
    /\ UNCHANGED <<argv, files, importable, stdoutEncoding, stdoutErrors, mode, file_path,
                   result, stdout, trace, prev>>

\* faulty variant: the usage error ends the process with status 0
MainCheckArgs_ExitZero ==
    /\ pc = "main"
    /\ trace' = Append(trace, "argc")
    /\ IF Len(argv) < 3
       THEN /\ PrintThenExit(json_dumps(ErrorObj(UsageMsg), TRUE), 0)
            /\ UNCHANGED <<mode, file_path>>
       ELSE /\ mode' = argv[2]
            /\ file_path' = argv[3]
            /\ pc' = "dispatch"
            /\ UNCHANGED <<stdout, exitStatus, uncaught>>
    /\ UNCHANGED <<argv, files, importable, stdoutEncoding, stdoutErrors, result, prev>>

\* faulty variant: the file path is the last argument instead of the second
MainCheckArgs_LastArg ==
    /\ pc = "main"
    /\ trace' = Append(trace, "argc")
    /\ IF Len(argv) < 3
       THEN /\ PrintThenExit(json_dumps(ErrorObj(UsageMsg), TRUE), 1)
            /\ UNCHANGED <<mode, file_path>>
       ELSE /\ mode' = argv[2]
            /\ file_path' = argv[Len(argv)]
            /\ pc' = "dispatch"
            /\ UNCHANGED <<stdout, exitStatus, uncaught>>
    /\ UNCHANGED <<argv, files, importable, stdoutEncoding, stdoutErrors, result, prev>>

\* lines 77-82
MainCheckArgs ==
    /\ pc = "main"
    /\ trace' = Append(trace, "argc")
    /\ IF Len(argv) < 3
       THEN /\ PrintThenExit(json_dumps(ErrorObj(UsageMsg), TRUE), 1)
            /\ UNCHANGED <<mode, file_path>>
       ELSE /\ mode' = argv[2]
            /\ file_path' = argv[3]
            /\ pc' = "dispatch"
            /\ UNCHANGED <<stdout, exitStatus, uncaught>>
    /\ UNCHANGED <<argv, files, importable, stdoutEncoding, stdoutErrors, result, prev>>

\* faulty variant: the mode is compared without regard to case
MainDispatch_IgnoreCase ==
    /\ pc = "dispatch"
    /\ IF mode \in {ModeImage, ModeCapImage}
       THEN /\ pc' = "extract_text_from_image"
            /\ trace' = trace \o <<"mode", "call_image">>
            /\ UNCHANGED <<stdout, exitStatus, uncaught>>
       ELSE IF mode = ModePdf
       THEN /\ pc' = "extract_text_from_pdf"
            /\ trace' = trace \o <<"mode", "call_pdf">>
            /\ UNCHANGED <<stdout, exitStatus, uncaught>>
       ELSE /\ PrintThenExit(json_dumps(ErrorObj(InvalidModeMsg), TRUE), 1)
            /\ trace' = Append(trace, "mode")
    /\ UNCHANGED <<argv, files, importable, stdoutEncoding, stdoutErrors, mode, file_path, result, prev>>

\* faulty variant: main looks for the file before it looks at the mode
MainDispatch_ExistsFirst ==
    /\ pc = "dispatch"
    /\ IF ~os_path_exists(file_path)
       THEN /\ PrintThenExit(json_dumps(ErrorObj(FileNotFoundMsg \o file_path), FALSE), 0)
            /\ trace' = Append(trace, "exists")
       ELSE IF mode = ModeImage
       THEN /\ pc' = "extract_text_from_image"
            /\ trace' = trace \o <<"exists", "mode", "call_image">>
            /\ UNCHANGED <<stdout, exitStatus, uncaught>>
       ELSE IF mode = ModePdf
       THEN /\ pc' = "extract_text_from_pdf"
            /\ trace' = trace \o <<"exists", "mode", "call_pdf">>
            /\ UNCHANGED <<stdout, exitStatus, uncaught>>
       ELSE /\ PrintThenExit(json_dumps(ErrorObj(InvalidModeMsg), TRUE), 1)
            /\ trace' = trace \o <<"exists", "mode">>
    /\ UNCHANGED <<argv, files, importable, stdoutEncoding, stdoutErrors, mode, file_path, result, prev>>

\* lines 84, 87, 90-92
MainDispatch ==
    /\ pc = "dispatch"
    /\ IF mode = ModeImage
       THEN /\ pc' = "extract_text_from_image"
            /\ trace' = trace \o <<"mode", "call_image">>
            /\ UNCHANGED <<stdout, exitStatus, uncaught>>
       ELSE IF mode = ModePdf
       THEN /\ pc' = "extract_text_from_pdf"
            /\ trace' = trace \o <<"mode", "call_pdf">>
            /\ UNCHANGED <<stdout, exitStatus, uncaught>>
       ELSE /\ PrintThenExit(json_dumps(ErrorObj(InvalidModeMsg), TRUE), 1)
            /\ trace' = Append(trace, "mode")
    /\ UNCHANGED <<argv, files, importable, stdoutEncoding, stdoutErrors, mode, file_path, result, prev>>

\* line 85
ExtractTextFromImage ==
    /\ pc = "extract_text_from_image"
    /\ result' = extract_text_from_image(file_path)
    /\ trace' = Append(trace, "exists")
    /\ pc' = "print"
    /\ UNCHANGED <<argv, files, importable, stdoutEncoding, stdoutErrors, mode, file_path,
                   stdout, exitStatus, uncaught, prev>>

\* line 88
ExtractTextFromPdf ==
    /\ pc = "extract_text_from_pdf"
    /\ result' = extract_text_from_pdf(file_path)
    /\ trace' = Append(trace, "exists")
    /\ pc' = "print"
    /\ UNCHANGED <<argv, files, importable, stdoutEncoding, stdoutErrors, mode, file_path,
                   stdout, exitStatus, uncaught, prev>>

\* lines 86 and 89, then the return from main
MainPrint ==
    /\ pc = "print"
    /\ PrintThenExit(json_dumps(result, FALSE), 0)
    /\ trace' = Append(trace, "print")
    /\ UNCHANGED <<argv, files, importable, stdoutEncoding, stdoutErrors, mode, file_path, result, prev>>

\* The caller invokes the script once more with the same mode and path while
\* the file may have been rewritten and further arguments may differ.
Reinvoke ==
    /\ pc = "exited"
    /\ ~prev.ran
    /\ prev' = [ran |-> TRUE, argv |-> argv, files |-> files,
                out |-> stdout, status |-> exitStatus]
    /\ IF Len(argv) < 3
       THEN UNCHANGED <<argv, files>>
       ELSE /\ \E t \in ExtraArgsUpTo(MaxExtraArgs) : argv' = SubSeq(argv, 1, 3) \o t
            /\ \E f \in FileSystems(argv) :
                  /\ (f[argv[3]] # 0) = (files[argv[3]] # 0)
                  /\ files' = f
    /\ pc' = "start"
    /\ mode' = <<>>
    /\ file_path' = <<>>
    /\ result' = JNull
    /\ stdout' = <<>>
    /\ exitStatus' = -1
    /\ uncaught' = ""
    /\ trace' = <<>>
    /\ UNCHANGED <<importable, stdoutEncoding, stdoutErrors>>

Next ==
    \/ LoadModule
    \/ MainCheckArgs
    \/ MainDispatch
    \/ ExtractTextFromImage
    \/ ExtractTextFromPdf
    \/ MainPrint
    \/ Reinvoke

Spec == Init /\ [][Next]_vars

\* ---------------------------------------------------------------- claims
Exited == pc = "exited"
MainEntered == trace # <<>>
Happened(e) == \E i \in 1..Len(trace) : trace[i] = e
ValidModes == {ModeImage, ModePdf}
StubReturned == pc \in {"print", "exited"} /\ (Happened("call_image") \/ Happened("call_pdf"))

\* the checks of the run, in the order they were made
Checks == SelectSeq(trace, LAMBDA e : e \in {"argc", "mode", "exists"})

UsageLine == <<"{", "\"", "e", "r", "r", "o", "r", "\"", ":", " ", "\"", "U", "s", "a", "g", "e", ":", " ", "p", "y", "t", "h", "o", "n", " ", "d", "o", "t", "s", "_", "o", "c", "r", ".", "p", "y", " ", "<", "m", "o", "d", "e", ">", " ", "<", "f", "i", "l", "e", "_", "p", "a", "t", "h", ">", "\"", "}">>
InvalidModeLine == <<"{", "\"", "e", "r", "r", "o", "r", "\"", ":", " ", "\"", "I", "n", "v", "a", "l", "i", "d", " ", "m", "o", "d", "e", ".", " ", "U", "s", "e", " ", "'", "i", "m", "a", "g", "e", "'", " ", "o", "r", " ", "'", "p", "d", "f", "'", "\"", "}">>

\* C1: for a path p that does not exist each stub returns exactly
\* {"error": "File not found: p"}, and the run of main with mode image or pdf
\* prints that object and ends with exit status 0.
C1_MissingFile ==
    (StubReturned /\ ~os_path_exists(file_path)) =>
        /\ result = ErrorObj(FileNotFoundMsg \o file_path)
        /\ Keys(result) = {KError}
        /\ Exited => /\ stdout = <<json_dumps(ErrorObj(FileNotFoundMsg \o file_path), FALSE)>>
                     /\ exitStatus = 0

\* C2: for a path p that exists the image-mode result has exactly the four
\* fields text, confidence, language and boxes, with confidence 0.95,
\* language "zh", boxes [] and a text that contains p.
C2_ImageResult ==
    (StubReturned /\ Happened("call_image") /\ os_path_exists(file_path)) =>
        /\ Len(result.items) = 4
        /\ Keys(result) = {KText, KConfidence, KLanguage, KBoxes}
        /\ Get(result, KConfidence) = JFloat(95)
        /\ Get(result, KLanguage) = JStr(LangZh)
        /\ Get(result, KBoxes) = JList(<<>>)
        /\ Get(result, KText).t = "str"
        /\ Contains(Get(result, KText).s, file_path)

C2_Witness ==
    /\ StubReturned /\ Happened("call_image") /\ os_path_exists(file_path)
    /\ Len(file_path) = MaxPathLen
    /\ files[file_path] = NumContents

\* C3: for a path p that exists the PDF-mode result has a pages sequence of
\* length exactly 1, whose element has page 1, a text that contains p,
\* confidence 0.95 and language "zh", whatever the file holds.
C3_PdfResult ==
    (StubReturned /\ Happened("call_pdf") /\ os_path_exists(file_path)) =>
        /\ Keys(result) = {KPages}
        /\ Len(result.items) = 1
        /\ Get(result, KPages).t = "list"
        /\ Len(Get(result, KPages).items) = 1
        /\ LET page == Get(result, KPages).items[1].val
           IN  /\ Get(page, KPage) = JInt(1)
               /\ Get(page, KText).t = "str"
               /\ Contains(Get(page, KText).s, file_path)
               /\ Get(page, KConfidence) = JFloat(95)
               /\ Get(page, KLanguage) = JStr(LangZh)

C3_Witness ==
    /\ StubReturned /\ Happened("call_pdf") /\ os_path_exists(file_path)
    /\ files[file_path] = NumContents
    /\ Len(file_path) = MaxPathLen

C6_ExitStatus ==
    (Exited /\ MainEntered) =>
        /\ exitStatus \in {0, 1}
        /\ (exitStatus = 0) = (Len(argv) >= 3 /\ argv[2] \in ValidModes)

\* C7: no run of the script, from process start on, ends in an uncaught
\* fault: the only exits with a status other than 0 are the usage error and
\* the invalid-mode error, each reported as an error object.
C7_NoUncaughtFault ==
    Exited =>
        /\ uncaught = ""
        /\ (exitStatus # 0) => (Len(argv) < 3 \/ argv[2] \notin ValidModes)
        /\ Len(stdout) = 1

\* C8: a run of main that has ended has written exactly one JSON object to
\* standard output.
C8_OneObject == (Exited /\ MainEntered) => Len(stdout) = 1

\* C9: the argument count is checked first, then the mode, then the
\* existence of the file: one argument that is an invalid mode gives the
\* usage error, an invalid mode is reported without an existence check, and
\* an existence check is made only after a mode image or pdf was recognised.
C9_CheckOrder ==
    /\ Checks \in {<<>>, <<"argc">>, <<"argc", "mode">>, <<"argc", "mode", "exists">>}
    /\ (Exited /\ MainEntered /\ Len(argv) = 2) => (stdout = <<UsageLine>> /\ Checks = <<"argc">>)
    /\ (Exited /\ MainEntered /\ Len(argv) >= 3 /\ argv[2] \notin ValidModes) =>
           (stdout = <<InvalidModeLine>> /\ Checks = <<"argc", "mode">>)
    /\ Happened("exists") => (Len(argv) >= 3 /\ mode \in ValidModes /\ mode = argv[2])

C9_Witness ==
    /\ Exited /\ Len(argv) >= 3 /\ argv[2] = ModeTxt
    /\ ~os_path_exists(argv[3])
    /\ Checks = <<"argc", "mode">>

NoFault == uncaught = ""

MissingFileUnlessFault == NoFault => C1_MissingFile

ExitStatusUnlessFault == NoFault => C6_ExitStatus

OneObjectUnlessFault == NoFault => C8_OneObject

FaultOnlyAtLoadOrPrint ==
    /\ uncaught = "ModuleNotFoundError" => (~importable /\ ~MainEntered)
    /\ uncaught = "UnicodeEncodeError" =>
           (StubReturned /\ ~CanEncode(json_dumps(result, FALSE)) /\ stdout = <<>>)
    /\ Len(stdout) <= 1
====
